---- MODULE Spec2Model ----
(***************************************************************************)
(* Blogicum: posts, categories and comments behind the request handlers of *)
(* blog/views.py, with the query sets of blog/models.py.                   *)
(***************************************************************************)
EXTENDS Integers, Sequences, FiniteSets, TLC

\* ------------------------------------------------------------------ bounds
MaxPosts == 2
MaxComments == 2
MaxTime == 1
MaxItems == 25

\* --------------------------------------------------------------- constants
POSTS_PER_PAGE == 10
CategoryPageSize == 10
ProfilePageSize == 10

Users == {"u1", "u2"}
Anon == "anon"
Viewers == Users \cup {Anon}
Usernames == Users \cup {"ghost"}
CatIds == {"c1", "c2"}
Slugs == CatIds \cup {"nocat"}
NULL == "null"
Texts == {"a", "b"}
Methods == {"GET", "POST"}
Times == 0..MaxTime
PostIds == 1..MaxPosts
CommentIds == 1..MaxComments

VARIABLES
    posts,          \* Post rows: id -> [author, pub_date, is_published, category]
    comments,       \* Comment rows: id -> [post, author, text, created_at, is_published]
    categories,     \* Category rows: slug -> [is_published]
    now,            \* timezone.now()
    nextPostId,     \* auto-increment key of Post
    nextCommentId,  \* auto-increment key of Comment
    req,            \* the request handled last
    resp,           \* its response
    pg              \* a listing of a given length, the page asked and the page returned

vars == <<posts, comments, categories, now, nextPostId, nextCommentId, req, resp, pg>>
store == <<posts, comments, categories, now, nextPostId, nextCommentId>>

\* ---------------------------------------------------------------- helpers
Restrict(f, S) == [x \in S |-> f[x]]

\* all the orders of a finite set, as sequences
SeqsOf(S) ==
    {s \in [1..Cardinality(S) -> S] : \A i, j \in 1..Cardinality(S) : i # j => s[i] # s[j]}

SeqRange(s) == {s[i] : i \in DOMAIN s}

\* ------------------------------------------------------------- query sets
\* (a plausible slip: the filter without pub_date__lte)
published_ignoring_pub_date(ids, P, Cats, t) ==
    LET joined == {pc \in ids \X DOMAIN Cats : P[pc[1]].category = pc[2]}
        kept == {pc \in joined : P[pc[1]].is_published /\ Cats[pc[2]].is_published}
    IN {pc[1] : pc \in kept}

\* filter(is_published=True, pub_date__lte=now, category__is_published=True):
\* the category condition is an inner join of Post with Category.
published(ids, P, Cats, t) ==
    LET joined == {pc \in ids \X DOMAIN Cats : P[pc[1]].category = pc[2]}
        kept == {pc \in joined : /\ P[pc[1]].is_published
                                 /\ P[pc[1]].pub_date <= t
                                 /\ Cats[pc[2]].is_published}
    IN {pc[1] : pc \in kept}

\* (a plausible slip: Count('comments') over the published comments only)
with_comment_count_published_only(ids, C) ==
    [p \in ids |-> Cardinality({c \in DOMAIN C : C[c].post = p /\ C[c].is_published})]

\* annotate(comment_count=Count('comments')): left join of the posts with
\* their comments (key 0 for a post that has none), grouped by post, counting
\* the joined comment keys.
with_comment_count(ids, C) ==
    LET rows == {pc \in ids \X DOMAIN C : C[pc[2]].post = pc[1]}
                \cup {<<p, 0>> : p \in {q \in ids : \A c \in DOMAIN C : C[c].post # q}}
    IN [p \in ids |-> Cardinality({r \in rows : r[1] = p /\ r[2] # 0})]

\* order_by('-pub_date'): rows of equal pub_date come in whatever order the
\* database yields them.
order_by_pub_date_desc(ids, P) ==
    {s \in SeqsOf(ids) : \A i \in 1..(Cardinality(ids) - 1) : P[s[i]].pub_date >= P[s[i + 1]].pub_date}

annotate_posts_with_comments(ids, P, C) ==
    LET cnt == with_comment_count(ids, C)
    IN {[i \in DOMAIN s |-> <<s[i], cnt[s[i]]>>] : s \in order_by_pub_date_desc(ids, P)}

\* Comment.Meta.ordering = ('created_at',) and order_by('created_at')
order_by_created_at(ids, C) ==
    {s \in SeqsOf(ids) : \A i \in 1..(Cardinality(ids) - 1) : C[s[i]].created_at <= C[s[i + 1]].created_at}

\* -------------------------------------------------------------- pagination
\* the request parameter "page": absent, a text that is no integer, or an integer
PageAbsent == [kind |-> "absent", val |-> 0]
PageText == [kind |-> "text", val |-> 0]
PageInt(v) == [kind |-> "int", val |-> v]
PageParams == {PageAbsent, PageText} \cup {PageInt(v) : v \in -1..4} \cup {PageInt(99)}
\* the pages asked of the listings of the store, which fit one page
ListingPages == {PageAbsent, PageInt(2)}

\* Paginator.num_pages with allow_empty_first_page: ceil(max(1, count) / per_page)
num_pages(n, per_page) ==
    LET hits == IF n < 1 THEN 1 ELSE n
    IN (hits + per_page - 1) \div per_page

\* (a plausible slip: EmptyPage gives page 1)
get_page_number_first_when_empty(param, n, per_page) ==
    IF param.kind # "int" THEN 1
    ELSE IF param.val < 1 \/ param.val > num_pages(n, per_page) THEN 1
    ELSE param.val

\* Paginator.get_page: validate_number raises PageNotAnInteger for what int()
\* refuses and EmptyPage for a number below 1 or above num_pages; get_page
\* answers the first with page 1 and the second with page num_pages
get_page_number(param, n, per_page) ==
    IF param.kind # "int" THEN 1
    ELSE IF param.val < 1 THEN num_pages(n, per_page)
    ELSE IF param.val > num_pages(n, per_page) THEN num_pages(n, per_page)
    ELSE param.val

get_page_obj(param, post_list, posts_per_page) ==
    LET n == Len(post_list)
        number == get_page_number(param, n, posts_per_page)
        bottom == (number - 1) * posts_per_page
        top == IF bottom + posts_per_page >= n THEN n ELSE bottom + posts_per_page
    IN [number |-> number,
        object_list |-> SubSeq(post_list, bottom + 1, top),
        has_next |-> number < num_pages(n, posts_per_page),
        has_previous |-> number > 1,
        num_pages |-> num_pages(n, posts_per_page)]

\* ------------------------------------------------------------------ forms
\* PostForm: pub_date, is_published and category as posted; a category left
\* blank is NULL.  CommentForm: the text as posted, "" when left empty.
PostData == [pub_date : Times, is_published : BOOLEAN, category : CatIds \cup {NULL}]
BlankPost == [pub_date |-> 0, is_published |-> FALSE, category |-> NULL]
CommentTexts == Texts \cup {""}

\* a GET carries no form data, a POST carries the fields posted
PostRequests ==
    {[method |-> "GET", data |-> BlankPost]} \cup {[method |-> "POST", data |-> d] : d \in PostData}
CommentRequests ==
    {[method |-> "GET", text |-> ""]} \cup {[method |-> "POST", text |-> x] : x \in CommentTexts}

\* PostForm(request.POST or None ...).is_valid(): bound, and the category is
\* one of the Category rows
post_form_is_valid(method, data, Cats) ==
    method = "POST" /\ data.category \in DOMAIN Cats

\* CommentForm(...).is_valid(): bound, and the required text is given
comment_form_is_valid(method, text) ==
    method = "POST" /\ text # ""

\* ---------------------------------------------------------------- outcomes
\* What a handler does: the response (status, the listed posts with their
\* comment_count, the listed comments) and the rows it leaves.
Out(status, P, C, items, clist) ==
    [status |-> status, posts |-> P, comments |-> C, items |-> items, clist |-> clist]

\* @login_required
login_required(v, P, C, outcomes) ==
    IF v = Anon THEN {Out("RedirectLogin", P, C, <<>>, <<>>)} ELSE outcomes

CommentsOf(p, C) == {c \in DOMAIN C : C[c].post = p}
PublishedCommentsOf(p, C) == {c \in DOMAIN C : C[c].post = p /\ C[c].is_published}

\* ---------------------------------------------------------------- handlers
index(P, C, Cats, t, page) ==
    {Out("OK", P, C, get_page_obj(page, post_list, POSTS_PER_PAGE).object_list, <<>>) :
        post_list \in annotate_posts_with_comments(published(DOMAIN P, P, Cats, t), P, C)}

\* post.is_published and post.pub_date <= now and post.category.is_published,
\* evaluated left to right; the last conjunct reads an attribute of the category
post_is_available(post, Cats, t) ==
    IF ~post.is_published THEN "False"
    ELSE IF ~(post.pub_date <= t) THEN "False"
    ELSE IF post.category = NULL THEN "AttributeError"
    ELSE IF Cats[post.category].is_published THEN "True" ELSE "False"

post_detail(P, C, Cats, t, v, p) ==
    IF p \notin DOMAIN P THEN {Out("NotFound", P, C, <<>>, <<>>)}
    ELSE LET user_is_author == P[p].author = v
             available == post_is_available(P[p], Cats, t)
         IN IF available = "AttributeError" THEN {Out("ServerError", P, C, <<>>, <<>>)}
            ELSE IF ~(available = "True" \/ user_is_author)
                 THEN {Out("NotFound", P, C, <<>>, <<>>)}
            ELSE {Out("OK", P, C, <<>>, cl) :
                    cl \in order_by_created_at(
                        IF user_is_author THEN CommentsOf(p, C) ELSE PublishedCommentsOf(p, C), C)}

category_posts(P, C, Cats, t, slug, page) ==
    IF ~(slug \in DOMAIN Cats /\ Cats[slug].is_published)
    THEN {Out("NotFound", P, C, <<>>, <<>>)}
    ELSE {Out("OK", P, C, get_page_obj(page, post_list, CategoryPageSize).object_list, <<>>) :
            post_list \in annotate_posts_with_comments(
                published({p \in DOMAIN P : P[p].category = slug}, P, Cats, t), P, C)}

profile(P, C, Cats, t, v, username, page) ==
    IF username \notin Users THEN {Out("NotFound", P, C, <<>>, <<>>)}
    ELSE LET own == {p \in DOMAIN P : P[p].author = username}
             shown == IF v # username THEN published(own, P, Cats, t) ELSE own
         IN {Out("OK", P, C, get_page_obj(page, post_list, ProfilePageSize).object_list, <<>>) :
                post_list \in annotate_posts_with_comments(shown, P, C)}

post_create(P, C, Cats, v, method, data, pid) ==
    login_required(v, P, C,
        IF post_form_is_valid(method, data, Cats)
        THEN {Out("RedirectProfile",
                  [q \in DOMAIN P \cup {pid} |->
                      IF q = pid THEN [author |-> v, pub_date |-> data.pub_date,
                                       is_published |-> data.is_published,
                                       category |-> data.category]
                      ELSE P[q]],
                  C, <<>>, <<>>)}
        ELSE {Out("OK", P, C, <<>>, <<>>)})

post_edit(P, C, Cats, v, p, method, data) ==
    login_required(v, P, C,
        IF p \notin DOMAIN P THEN {Out("NotFound", P, C, <<>>, <<>>)}
        ELSE IF P[p].author # v THEN {Out("RedirectDetail", P, C, <<>>, <<>>)}
        ELSE IF post_form_is_valid(method, data, Cats)
             THEN {Out("RedirectDetail",
                       [P EXCEPT ![p] = [author |-> P[p].author, pub_date |-> data.pub_date,
                                         is_published |-> data.is_published,
                                         category |-> data.category]],
                       C, <<>>, <<>>)}
        ELSE {Out("OK", P, C, <<>>, <<>>)})

\* @login_required over @require_http_methods(['POST'])
add_comment(P, C, t, v, p, method, text, cid) ==
    login_required(v, P, C,
        IF method # "POST" THEN {Out("MethodNotAllowed", P, C, <<>>, <<>>)}
        ELSE IF p \notin DOMAIN P THEN {Out("NotFound", P, C, <<>>, <<>>)}
        ELSE IF comment_form_is_valid(method, text)
             THEN {Out("RedirectDetail", P,
                       [c \in DOMAIN C \cup {cid} |->
                           IF c = cid THEN [post |-> p, author |-> v, text |-> text,
                                            created_at |-> t, is_published |-> TRUE]
                           ELSE C[c]],
                       <<>>, <<>>)}
        ELSE {Out("OK", P, C, <<>>, cl) : cl \in order_by_created_at(PublishedCommentsOf(p, C), C)})

\* (a plausible slip: the lookup without author=request.user)
comment_lookup_any_author(C, v, p, c) ==
    c \in DOMAIN C /\ C[c].post = p

\* get_object_or_404(Comment, pk=comment_id, post_id=post_id, author=request.user)
comment_lookup(C, v, p, c) ==
    c \in DOMAIN C /\ C[c].post = p /\ C[c].author = v

edit_comment(P, C, v, p, c, method, text) ==
    login_required(v, P, C,
        IF ~comment_lookup(C, v, p, c) THEN {Out("NotFound", P, C, <<>>, <<>>)}
        ELSE IF comment_form_is_valid(method, text)
             THEN {Out("RedirectDetail", P, [C EXCEPT ![c].text = text], <<>>, <<>>)}
        ELSE {Out("OK", P, C, <<>>, <<>>)})

delete_comment(P, C, v, p, c, method) ==
    login_required(v, P, C,
        IF ~comment_lookup(C, v, p, c) THEN {Out("NotFound", P, C, <<>>, <<>>)}
        ELSE IF method # "POST" THEN {Out("OK", P, C, <<>>, <<>>)}
        ELSE {Out("RedirectDetail", P, Restrict(C, DOMAIN C \ {c}), <<>>, <<>>)})

\* the route comments/<comment_id>/delete/ calls delete_comment without the
\* post_id it requires
delete_comment_by_comment_url(P, C, v, c) ==
    login_required(v, P, C, {Out("ServerError", P, C, <<>>, <<>>)})

\* (a plausible slip: delete_post without the check of the author)
delete_post_unchecked(P, C, v, p, method) ==
    login_required(v, P, C,
        IF p \notin DOMAIN P THEN {Out("NotFound", P, C, <<>>, <<>>)}
        ELSE IF method # "POST" THEN {Out("OK", P, C, <<>>, <<>>)}
        ELSE {Out("RedirectProfile", Restrict(P, DOMAIN P \ {p}),
                  Restrict(C, DOMAIN C \ CommentsOf(p, C)), <<>>, <<>>)})

\* post.delete() also deletes the comments of the post (on_delete=CASCADE)
delete_post(P, C, v, p, method) ==
    login_required(v, P, C,
        IF p \notin DOMAIN P THEN {Out("NotFound", P, C, <<>>, <<>>)}
        ELSE IF P[p].author # v THEN {Out("RedirectDetail", P, C, <<>>, <<>>)}
        ELSE IF method # "POST" THEN {Out("OK", P, C, <<>>, <<>>)}
        ELSE {Out("RedirectProfile", Restrict(P, DOMAIN P \ {p}),
                  Restrict(C, DOMAIN C \ CommentsOf(p, C)), <<>>, <<>>)})

\* ------------------------------------------------------------------ state
Req(op, v, p, c, name) == [op |-> op, viewer |-> v, post_id |-> p, comment_id |-> c, name |-> name]
Resp(out) == [status |-> out.status, items |-> out.items, clist |-> out.clist]

NoReq == Req("none", Anon, 0, 0, "")
NoResp == [status |-> "none", items |-> <<>>, clist |-> <<>>]
NoPage == [handler |-> "none", n |-> 0, param |-> PageAbsent,
           page |-> get_page_obj(PageAbsent, <<>>, POSTS_PER_PAGE)]

\* the database after the migrations and the administrator's categories
Init ==
    /\ posts = <<>>
    /\ comments = <<>>
    /\ categories = [c \in CatIds |-> [is_published |-> TRUE]]
    /\ now = 0
    /\ nextPostId = 1
    /\ nextCommentId = 1
    /\ req = NoReq
    /\ resp = NoResp
    /\ pg = NoPage

\* a handler has run: the request, its response, the rows it leaves
Answer(r, out) ==
    /\ req' = r
    /\ resp' = Resp(out)
    /\ posts' = out.posts
    /\ comments' = out.comments
    /\ UNCHANGED <<categories, now, pg>>

\* index and category_posts do not read request.user
Req_index ==
    \E page \in ListingPages :
        \E out \in index(posts, comments, categories, now, page) :
            /\ Answer(Req("index", Anon, 0, 0, ""), out)
            /\ UNCHANGED <<nextPostId, nextCommentId>>

Req_post_detail ==
    \E v \in Viewers, p \in PostIds :
        \E out \in post_detail(posts, comments, categories, now, v, p) :
            /\ Answer(Req("post_detail", v, p, 0, ""), out)
            /\ UNCHANGED <<nextPostId, nextCommentId>>

Req_category_posts ==
    \E slug \in Slugs, page \in ListingPages :
        \E out \in category_posts(posts, comments, categories, now, slug, page) :
            /\ Answer(Req("category_posts", Anon, 0, 0, slug), out)
            /\ UNCHANGED <<nextPostId, nextCommentId>>

Req_profile ==
    \E v \in Viewers, username \in Usernames, page \in ListingPages :
        \E out \in profile(posts, comments, categories, now, v, username, page) :
            /\ Answer(Req("profile", v, 0, 0, username), out)
            /\ UNCHANGED <<nextPostId, nextCommentId>>

Req_post_create_by(VS, RS) ==
    \E v \in VS, r \in RS :
        /\ (v # Anon /\ post_form_is_valid(r.method, r.data, categories)) => nextPostId <= MaxPosts
        /\ \E out \in post_create(posts, comments, categories, v, r.method, r.data, nextPostId) :
            /\ Answer(Req("post_create", v, 0, 0, ""), out)
            /\ nextPostId' = IF out.posts # posts THEN nextPostId + 1 ELSE nextPostId
            /\ UNCHANGED nextCommentId

Req_post_create == Req_post_create_by(Viewers, PostRequests)

Req_post_edit_with(RS) ==
    \E v \in Viewers, p \in PostIds, r \in RS :
        \E out \in post_edit(posts, comments, categories, v, p, r.method, r.data) :
            /\ Answer(Req("post_edit", v, p, 0, ""), out)
            /\ UNCHANGED <<nextPostId, nextCommentId>>

Req_post_edit == Req_post_edit_with(PostRequests)

Req_add_comment_with(VS, RS) ==
    \E v \in VS, p \in PostIds, r \in RS :
        /\ (v # Anon /\ p \in DOMAIN posts /\ comment_form_is_valid(r.method, r.text))
               => nextCommentId <= MaxComments
        /\ \E out \in add_comment(posts, comments, now, v, p, r.method, r.text, nextCommentId) :
            /\ Answer(Req("add_comment", v, p, 0, ""), out)
            /\ nextCommentId' = IF out.comments # comments THEN nextCommentId + 1 ELSE nextCommentId
            /\ UNCHANGED nextPostId

Req_add_comment == Req_add_comment_with(Viewers, CommentRequests)

Req_edit_comment ==
    \E v \in Viewers, p \in PostIds, c \in CommentIds, r \in CommentRequests :
        \E out \in edit_comment(posts, comments, v, p, c, r.method, r.text) :
            /\ Answer(Req("edit_comment", v, p, c, ""), out)
            /\ UNCHANGED <<nextPostId, nextCommentId>>

Req_delete_comment ==
    \E v \in Viewers, p \in PostIds, c \in CommentIds, method \in Methods :
        \E out \in delete_comment(posts, comments, v, p, c, method) :
            /\ Answer(Req("delete_comment", v, p, c, ""), out)
            /\ UNCHANGED <<nextPostId, nextCommentId>>

Req_delete_comment_by_comment_url ==
    \E v \in Viewers, c \in CommentIds :
        \E out \in delete_comment_by_comment_url(posts, comments, v, c) :
            /\ Answer(Req("delete_comment_by_comment_url", v, 0, c, ""), out)
            /\ UNCHANGED <<nextPostId, nextCommentId>>

Req_delete_post ==
    \E v \in Viewers, p \in PostIds, method \in Methods :
        \E out \in delete_post(posts, comments, v, p, method) :
            /\ Answer(Req("delete_post", v, p, 0, ""), out)
            /\ UNCHANGED <<nextPostId, nextCommentId>>

\* ------------------------------------------------- the administrator's site
\* admin.site.register(Category): a category is hidden or shown again
Admin_set_category_published_of(CS) ==
    \E c \in DOMAIN categories \cap CS, b \in BOOLEAN :
        /\ categories' = [categories EXCEPT ![c].is_published = b]
        /\ req' = Req("admin", Anon, 0, 0, c)
        /\ resp' = NoResp
        /\ UNCHANGED <<posts, comments, now, nextPostId, nextCommentId, pg>>

Admin_set_category_published == Admin_set_category_published_of(CatIds)

\* a category is deleted: its posts keep existing with category NULL (SET_NULL)
Admin_delete_category_of(CS) ==
    \E c \in DOMAIN categories \cap CS :
        /\ categories' = Restrict(categories, DOMAIN categories \ {c})
        /\ posts' = [p \in DOMAIN posts |->
                        IF posts[p].category = c THEN [posts[p] EXCEPT !.category = NULL]
                        ELSE posts[p]]
        /\ req' = Req("admin", Anon, 0, 0, c)
        /\ resp' = NoResp
        /\ UNCHANGED <<comments, now, nextPostId, nextCommentId, pg>>

Admin_delete_category == Admin_delete_category_of(CatIds)

\* admin.site.register(Comment): a comment is hidden or shown again
Admin_set_comment_published ==
    \E c \in DOMAIN comments, b \in BOOLEAN :
        /\ comments' = [comments EXCEPT ![c].is_published = b]
        /\ req' = Req("admin", Anon, 0, c, "")
        /\ resp' = NoResp
        /\ UNCHANGED <<posts, categories, now, nextPostId, nextCommentId, pg>>

\* time passes between two requests
Tick ==
    /\ now < MaxTime
    /\ now' = now + 1
    /\ req' = Req("tick", Anon, 0, 0, "")
    /\ resp' = NoResp
    /\ UNCHANGED <<posts, comments, categories, nextPostId, nextCommentId, pg>>

Next ==
    \/ Req_index
    \/ Req_post_detail
    \/ Req_category_posts
    \/ Req_profile
    \/ Req_post_create
    \/ Req_post_edit
    \/ Req_add_comment
    \/ Req_edit_comment
    \/ Req_delete_comment
    \/ Req_delete_comment_by_comment_url
    \/ Req_delete_post
    \/ Admin_set_category_published
    \/ Admin_delete_category
    \/ Admin_set_comment_published
    \/ Tick

\* the whole site
Spec == Init /\ [][Next]_vars

\* ----------------------------------------------------------------- scopes
\* The whole site is beyond exhaustive search; three parts of it are searched.

\* Posts, categories and time: every field of a post varies, the
\* administrator hides, shows and deletes category c1, nobody comments.
NextPosts ==
    \/ Req_index
    \/ Req_post_detail
    \/ Req_category_posts
    \/ Req_profile
    \/ Req_post_create
    \/ Req_post_edit
    \/ Req_delete_post
    \/ Admin_set_category_published_of({"c1"})
    \/ Admin_delete_category_of({"c1"})
    \/ Tick

SpecPosts == Init /\ [][NextPosts]_vars

\* In the two other parts u1 writes the posts, in category c1 and dated 0,
\* published or not.
ScopedPostRequests ==
    {r \in PostRequests : r.method = "POST" => (r.data.pub_date = 0 /\ r.data.category # "c2")}

\* Reading comments: everybody comments, with the text "a" or none, and
\* deletes; the administrator hides and shows comments, time passes.
ScopedCommentRequests == {r \in CommentRequests : r.text # "b"}

NextComments ==
    \/ Req_index
    \/ Req_post_detail
    \/ Req_category_posts
    \/ Req_profile
    \/ Req_post_create_by({"u1", Anon}, ScopedPostRequests)
    \/ Req_post_edit_with(ScopedPostRequests)
    \/ Req_add_comment_with(Viewers, ScopedCommentRequests)
    \/ Req_delete_comment
    \/ Req_delete_post
    \/ Admin_set_comment_published
    \/ Tick

SpecComments == Init /\ [][NextComments]_vars

\* Changing posts and comments: every handler that writes, and post_detail.
NextMutations ==
    \/ Req_post_detail
    \/ Req_post_create_by({"u1", Anon}, ScopedPostRequests)
    \/ Req_post_edit_with(ScopedPostRequests)
    \/ Req_add_comment
    \/ Req_edit_comment
    \/ Req_delete_comment
    \/ Req_delete_comment_by_comment_url
    \/ Req_delete_post

SpecMutations == Init /\ [][NextMutations]_vars

\* Pagination: a listing of pg.n posts is asked for a page by each handler.
InitPage == Init

Listing(n) == [i \in 1..n |-> i]

Page_of(handler, posts_per_page) ==
    \E n \in 0..MaxItems, param \in PageParams :
        /\ pg' = [handler |-> handler, n |-> n, param |-> param,
                  page |-> get_page_obj(param, Listing(n), posts_per_page)]
        /\ UNCHANGED <<posts, comments, categories, now, nextPostId, nextCommentId, req, resp>>

Page_index == Page_of("index", POSTS_PER_PAGE)
Page_category_posts == Page_of("category_posts", CategoryPageSize)
Page_profile == Page_of("profile", ProfilePageSize)

NextPage == Page_index \/ Page_category_posts \/ Page_profile

SpecPage == InitPage /\ [][NextPage]_vars

TypeOK ==
    /\ DOMAIN posts \subseteq PostIds
    /\ DOMAIN comments \subseteq CommentIds
    /\ \A c \in DOMAIN comments : comments[c].post \in DOMAIN posts

\* ----------------------------------------------------------------- claims
\* The words of the claims, independent of the handlers above.
is_publicly_visible(p) ==
    /\ posts[p].is_published
    /\ posts[p].pub_date <= now
    /\ posts[p].category # NULL
    /\ categories[posts[p].category].is_published

ItemIds(items) == {items[i][1] : i \in DOMAIN items}
IsListing == req.op \in {"index", "category_posts", "profile"} /\ resp.status = "OK"

\* C1: post_detail(V, P) succeeds if and only if P is publicly visible at now
\* or V is P's author; in every other case it fails with NotFound.
C1_DetailIffVisibleOrAuthor ==
    (req.op = "post_detail" /\ req.post_id \in DOMAIN posts) =>
        LET p == req.post_id
        IN IF is_publicly_visible(p) \/ req.viewer = posts[p].author
           THEN resp.status = "OK"
           ELSE resp.status = "NotFound"

\* C2: a post whose category is null is never publicly visible: no listing
\* filtered by published() holds it, post_detail gives a viewer who is not the
\* author NotFound and gives the author the post.
C2_NullCategoryNeverVisible ==
    /\ (IsListing /\ ~(req.op = "profile" /\ req.viewer = req.name)) =>
           \A p \in ItemIds(resp.items) : posts[p].category # NULL
    /\ (req.op = "post_detail" /\ req.post_id \in DOMAIN posts
            /\ posts[req.post_id].category = NULL) =>
           resp.status = (IF req.viewer = posts[req.post_id].author THEN "OK" ELSE "NotFound")

\* C3: index lists exactly the publicly visible posts; category_posts lists
\* exactly the publicly visible posts of a published category and is NotFound
\* for an absent or unpublished one; profile lists all of the user's posts to
\* the user and only the publicly visible ones to anybody else.
C3_ListingsReturnExactlyVisible ==
    /\ req.op = "index" =>
           /\ resp.status = "OK"
           /\ ItemIds(resp.items) = {p \in DOMAIN posts : is_publicly_visible(p)}
    /\ req.op = "category_posts" =>
           IF req.name \in DOMAIN categories /\ categories[req.name].is_published
           THEN /\ resp.status = "OK"
                /\ ItemIds(resp.items) =
                       {p \in DOMAIN posts : posts[p].category = req.name /\ is_publicly_visible(p)}
           ELSE resp.status = "NotFound"
    /\ req.op = "profile" =>
           IF req.name \in Users
           THEN /\ resp.status = "OK"
                /\ ItemIds(resp.items) =
                       {p \in DOMAIN posts : /\ posts[p].author = req.name
                                             /\ (req.viewer = req.name \/ is_publicly_visible(p))}
           ELSE resp.status = "NotFound"
    /\ IsListing => Len(resp.items) = Cardinality(ItemIds(resp.items))

\* the author's profile lists a post of the future that the index does not
C3_Witness ==
    /\ req.op = "profile" /\ req.viewer = req.name /\ resp.status = "OK"
    /\ \E p \in ItemIds(resp.items) : posts[p].pub_date > now /\ posts[p].is_published
    /\ \E p \in ItemIds(resp.items) : is_publicly_visible(p)

\* C4: every listing is ordered by pub_date descending, equal pub_date by id
\* descending.
C4_OrderedByPubDateThenId ==
    IsListing =>
        \A i, j \in DOMAIN resp.items :
            i < j =>
                LET a == resp.items[i][1]
                    b == resp.items[j][1]
                IN \/ posts[a].pub_date > posts[b].pub_date
                   \/ (posts[a].pub_date = posts[b].pub_date /\ a > b)

\* C5: in every listing the comment_count of a post is the number of Comment
\* rows that reference it, unpublished ones too, each post listed once.
C5_CommentCountIsAllComments ==
    IsListing =>
        /\ \A i \in DOMAIN resp.items :
               resp.items[i][2] =
                   Cardinality({c \in DOMAIN comments : comments[c].post = resp.items[i][1]})
        /\ Len(resp.items) = Cardinality(ItemIds(resp.items))
        /\ {p \in DOMAIN posts : is_publicly_visible(p) /\ req.op = "index"}
               \subseteq ItemIds(resp.items)

\* a listed post with two comments, one of them hidden
C5_Witness ==
    /\ IsListing
    /\ \E i \in DOMAIN resp.items :
           /\ resp.items[i][2] = 2
           /\ \E c \in DOMAIN comments :
                  comments[c].post = resp.items[i][1] /\ ~comments[c].is_published

\* C6: a post changes or goes only by post_edit or delete_post of its author;
\* a comment changes or goes only by edit_comment or delete_comment of its
\* author naming its post, or with its post when the post's author deletes it.
C6_OnlyAuthorMutates ==
    [][ /\ \A p \in DOMAIN posts :
               (p \notin DOMAIN posts' \/ posts'[p] # posts[p]) =>
                   /\ req'.op \in {"post_edit", "delete_post"}
                   /\ req'.viewer # Anon
                   /\ req'.viewer = posts[p].author
                   /\ req'.post_id = p
        /\ \A c \in DOMAIN comments :
               (c \notin DOMAIN comments' \/ comments'[c] # comments[c]) =>
                   \/ /\ req'.op \in {"edit_comment", "delete_comment"}
                      /\ req'.viewer # Anon
                      /\ req'.viewer = comments[c].author
                      /\ req'.post_id = comments[c].post
                      /\ req'.comment_id = c
                   \/ /\ req'.op = "delete_post"
                      /\ req'.viewer = posts[comments[c].post].author
                      /\ req'.post_id = comments[c].post
                      /\ comments[c].post \notin DOMAIN posts'
                      /\ c \notin DOMAIN comments'
      ]_vars

\* somebody else asks to change a comment that is there, on its post
C6_Witness ==
    /\ req.op \in {"edit_comment", "delete_comment"}
    /\ req.comment_id \in DOMAIN comments
    /\ comments[req.comment_id].post = req.post_id
    /\ req.viewer \in Users
    /\ comments[req.comment_id].author # req.viewer
    /\ resp.status = "NotFound"
    /\ \E c \in DOMAIN comments : comments[c].text = "b"

NonAuthorOfPost ==
    /\ req.op \in {"post_edit", "delete_post"}
    /\ req.viewer \in Users
    /\ req.post_id \in DOMAIN posts
    /\ posts[req.post_id].author # req.viewer

NonAuthorOfComment ==
    /\ req.op \in {"edit_comment", "delete_comment"}
    /\ req.viewer \in Users
    /\ req.comment_id \in DOMAIN comments
    /\ comments[req.comment_id].post = req.post_id
    /\ comments[req.comment_id].author # req.viewer

C8_CommentListByViewer ==
    (req.op \in {"post_detail", "add_comment"} /\ resp.status = "OK") =>
        /\ {resp.clist[i] : i \in DOMAIN resp.clist} =
               {c \in DOMAIN comments :
                   /\ comments[c].post = req.post_id
                   /\ (req.viewer = posts[req.post_id].author \/ comments[c].is_published)}
        /\ \A i, j \in DOMAIN resp.clist :
               i < j => comments[resp.clist[i]].created_at <= comments[resp.clist[j]].created_at

PageAnswered == pg.handler # "none"
PageSlice(number) ==
    SubSeq(Listing(pg.n), (number - 1) * 10 + 1, IF number * 10 < pg.n THEN number * 10 ELSE pg.n)
LastPage == IF pg.n = 0 THEN 1 ELSE (pg.n + 9) \div 10

\* C9 as stated: page 1 when the parameter is absent or not a number, the
\* last page when it exceeds the number of pages, otherwise the page asked.
C9_PageAsRequested ==
    PageAnswered =>
        pg.page.number = (IF pg.param.kind # "int" THEN 1
                          ELSE IF pg.param.val > LastPage THEN LastPage
                          ELSE pg.param.val)

\* C9 as amended: page 1 when the parameter is absent or not a number, the
\* last page when it is below 1 or exceeds the number of pages, otherwise the
\* page asked; the page holds its slice of at most 10 items, has_next exactly
\* when a later page exists, has_previous exactly when it is not the first;
\* the three handlers page by 10.
C9_PageOfTen ==
    PageAnswered =>
        /\ pg.page.number = (IF pg.param.kind # "int" THEN 1
                             ELSE IF pg.param.val < 1 \/ pg.param.val > LastPage THEN LastPage
                             ELSE pg.param.val)
        /\ pg.page.object_list = PageSlice(pg.page.number)
        /\ Len(pg.page.object_list) <= 10
        /\ pg.page.has_next = (pg.page.number < LastPage)
        /\ pg.page.has_previous = (pg.page.number > 1)
        /\ (pg.n = 25 /\ pg.param = PageInt(1)) =>
               (Len(pg.page.object_list) = 10 /\ pg.page.has_next /\ ~pg.page.has_previous)
        /\ (pg.n = 25 /\ pg.param \in {PageInt(3), PageInt(99)}) =>
               (pg.page.object_list = <<21, 22, 23, 24, 25>>
                    /\ ~pg.page.has_next /\ pg.page.has_previous)

\* page 99 of 25 posts is page 3, asked of the profile
C9_Witness ==
    /\ pg.handler = "profile"
    /\ pg.n = 25
    /\ pg.param = PageInt(99)
    /\ pg.page.number = 3
    /\ Len(pg.page.object_list) = 5

Statuses(outs) == {o.status : o \in outs}
NoEffect(outs) == \A o \in outs : o.posts = posts /\ o.comments = comments

\* C10: for a viewer who is not its author, a post that is there but not
\* publicly visible answers every request that names it as an absent post
\* does, and the request changes nothing.
C10_HiddenPostIndistinguishable ==
    \A p \in DOMAIN posts, v \in Viewers :
        (v # posts[p].author /\ ~is_publicly_visible(p) /\ CommentsOf(p, comments) = {}) =>
            LET absent == Restrict(posts, DOMAIN posts \ {p})
            IN /\ Statuses(post_detail(posts, comments, categories, now, v, p))
                      = Statuses(post_detail(absent, comments, categories, now, v, p))
               /\ \A r \in PostRequests :
                      /\ Statuses(post_edit(posts, comments, categories, v, p, r.method, r.data))
                             = Statuses(post_edit(absent, comments, categories, v, p, r.method, r.data))
                      /\ NoEffect(post_edit(posts, comments, categories, v, p, r.method, r.data))
               /\ \A m \in Methods :
                      /\ Statuses(delete_post(posts, comments, v, p, m))
                             = Statuses(delete_post(absent, comments, v, p, m))
                      /\ NoEffect(delete_post(posts, comments, v, p, m))
               /\ \A r \in CommentRequests :
                      /\ Statuses(add_comment(posts, comments, now, v, p, r.method, r.text, nextCommentId))
                             = Statuses(add_comment(absent, comments, now, v, p, r.method, r.text, nextCommentId))
                      /\ NoEffect(add_comment(posts, comments, now, v, p, r.method, r.text, nextCommentId))
               /\ \A c \in CommentIds, r \in CommentRequests :
                      /\ Statuses(edit_comment(posts, comments, v, p, c, r.method, r.text))
                             = Statuses(edit_comment(absent, comments, v, p, c, r.method, r.text))
                      /\ Statuses(delete_comment(posts, comments, v, p, c, r.method))
                             = Statuses(delete_comment(absent, comments, v, p, c, r.method))

====
